---------------------------- MODULE Spec2Model ----------------------------
(***************************************************************************)
(* Mission execution and safety supervision of the autonomous missions     *)
(* (circle_autonomous_flight, circle_position_mission,                     *)
(* figure8_autonomous_flight, spiral_position_mission) as asyncio tasks    *)
(* over one SharedState.                                                   *)
(*                                                                         *)
(* Scheduling: asyncio runs one task at a time; a task gives up the event  *)
(* loop only at an await that really suspends.  cpu names the task that is *)
(* executing synchronous code ("loop" when every task is suspended).  A    *)
(* task resumes only when cpu = "loop"; the clock may advance at any time. *)
(*                                                                         *)
(* Units: lengths in decimetres, speeds in decimetres per second, angles   *)
(* in degrees, time in clock ticks of half a revolution (pi / omega).      *)
(***************************************************************************)
EXTENDS Integers, Sequences, FiniteSets, TLC

VARIABLES
    mission,            \* which mission script is run
    now,                \* time.time()
    cpu,                \* task executing synchronous code, or "loop"
    pos_ned, vel_ned, attitude_deg, flight_mode,           \* SharedState telemetry
    running, emergency_stop, emergency_reason,             \* SharedState flags
    mission_phase, mission_t0_unix,                        \* SharedState markers
    mainPc, mainResult, \* main(): position, and how it ended ("raising": an exception is
                        \* propagating through main's finally block)
    exec_t0,            \* the Executor's time origin (t0 / start_time)
    align,              \* alignment locals: [x0, y0, z0, i, t_end]
    svPc, sv_start,     \* safety_watchdog: position, and its local start
    recPc, csv_rows,    \* log_telemetry_csv: position, rows written (saturating)
    watchPc,            \* the three telemetry watchers' positions
    cancel_requested,   \* tasks on which cancel() was called and not yet delivered
    last_pass,          \* once main has ended: tasks that may still run in the loop's last pass
    offboard_stop_calls, land_calls,   \* actuator: calls issued, per issuing task
    setpoint,           \* actuator: last position setpoint issued
    trajectory,         \* a trajectory object: its fields, None before construction
    last_call,          \* the last call made on it: [op, t, value]
    kbPc,               \* keyboard mission, position_control_loop: position
    alt_target,         \* its local alt_target
    down_sent,          \* <<down_target>> of the last setpoint it sent, None before the first
    command_queue,      \* keys queued by the curses thread and not yet read
    kb_cmd,             \* its locals <<vx_cmd, vy_cmd, yaw_rate_cmd_deg_s>>
    land_attempt,       \* keyboard main(): failed land attempts of the wind-down
    disarm_calls        \* keyboard main(): disarm calls issued

callVars == <<trajectory, last_call>>
kbVars == <<kbPc, alt_target, down_sent, command_queue, kb_cmd, land_attempt, disarm_calls>>
vars == <<mission, now, cpu, pos_ned, vel_ned, attitude_deg, flight_mode,
          running, emergency_stop, emergency_reason, mission_phase, mission_t0_unix,
          mainPc, mainResult, exec_t0, align, svPc, sv_start, recPc, csv_rows,
          watchPc, cancel_requested, last_pass, offboard_stop_calls, land_calls,
          setpoint, callVars, kbVars>>

stateVars == <<pos_ned, vel_ned, attitude_deg, flight_mode,
               running, emergency_stop, emergency_reason, mission_phase, mission_t0_unix>>
telemetryVars == <<pos_ned, vel_ned, attitude_deg, flight_mode>>
flagVars == <<running, emergency_stop, emergency_reason>>
markerVars == <<mission_phase, mission_t0_unix>>
actuatorVars == <<offboard_stop_calls, land_calls, setpoint>>
mainVars == <<mainPc, mainResult, exec_t0, align>>
svVars == <<svPc, sv_start>>
cancelVars == <<cancel_requested, last_pass>>
recVars == <<recPc, csv_rows>>

----------------------------------------------------------------------------
(* Bounds of the model *)

MaxTime == 4
AlignSteps == 2
MaxRows == 1

(* Program constants *)

Duration == 2
TimeoutFactorNum == 3
TimeoutFactorDen == 2
DriftMax == 18
SpeedMax == 35
RollPitchMax == 30
Radius == 30
AltitudeDm == 25
ClimbDm == 50
SettleTicks == 1

None == <<>>
NoTime == -1

Missions == {"circle_autonomous", "circle_position", "figure8", "spiral"}
AlignedMissions == {"circle_position", "figure8", "spiral"}
Watchers == {"posvel", "attitude", "flight_mode"}
Issuers == {"main", "sv"}

(* Telemetry samples the streams can deliver *)
PosVelSamples ==
    { [pos |-> <<30, 0, -25>>,  vel |-> <<0, 0, 0>>],
      [pos |-> <<48, 0, -25>>,  vel |-> <<35, 0, 0>>],
      [pos |-> <<-30, 0, -25>>, vel |-> <<0, -40, 0>>] }
AttitudeSamples == { <<0, 0, 0>>, <<30, -31, 90>> }
FlightModeSamples == { "OFFBOARD" }

----------------------------------------------------------------------------
(* Trajectories *)

Abs(x) == IF x < 0 THEN -x ELSE x

\* cos and sin at whole multiples of half a revolution (omega * t = k * pi)
CosHalfTurns(k) == IF k % 2 = 0 THEN 1 ELSE -1
SinHalfTurns(k) == 0

CirclePositionXY(t) == <<Radius * CosHalfTurns(t), Radius * SinHalfTurns(t)>>
Figure8PositionXY(t) == <<Radius * SinHalfTurns(t), (Radius * SinHalfTurns(2 * t)) \div 2>>
SpiralPositionXYZ(t) ==
    <<Radius * CosHalfTurns(t), Radius * SinHalfTurns(t),
      (-AltitudeDm) + ((-(AltitudeDm + ClimbDm) - (-AltitudeDm)) * t) \div Duration>>

\* reference_xy lambda handed to the watchdog
ReferenceXY(m, t) ==
    CASE m = "figure8" -> Figure8PositionXY(t)
      [] m = "spiral" -> <<SpiralPositionXYZ(t)[1], SpiralPositionXYZ(t)[2]>>
      [] OTHER -> CirclePositionXY(t)

\* start point the alignment phase goes to: <<x, y, down>>
AlignTarget(m) ==
    CASE m = "figure8" -> <<Figure8PositionXY(0)[1], Figure8PositionXY(0)[2], -AltitudeDm>>
      [] m = "spiral" -> SpiralPositionXYZ(0)
      [] OTHER -> <<0 + Radius, 0, -AltitudeDm>>

----------------------------------------------------------------------------
(* safety_watchdog: the checks of one poll *)

TimeoutCond(t) == t * TimeoutFactorDen > Duration * TimeoutFactorNum
\* mutant: a drift equal to the limit trips
DriftCondAtLimit(m, pos, t) ==
    LET ref == ReferenceXY(m, t)
        dx == pos[1] - ref[1]
        dy == pos[2] - ref[2]
    IN dx * dx + dy * dy >= DriftMax * DriftMax

DriftCond(m, pos, t) ==
    LET ref == ReferenceXY(m, t)
        dx == pos[1] - ref[1]
        dy == pos[2] - ref[2]
    IN dx * dx + dy * dy > DriftMax * DriftMax
\* mutant: a speed equal to the limit trips
SpeedCondAtLimit(vel) ==
    vel[1] * vel[1] + vel[2] * vel[2] + vel[3] * vel[3] >= SpeedMax * SpeedMax

SpeedCond(vel) ==
    vel[1] * vel[1] + vel[2] * vel[2] + vel[3] * vel[3] > SpeedMax * SpeedMax
AttitudeCond(att) == Abs(att[1]) > RollPitchMax \/ Abs(att[2]) > RollPitchMax

TelemetryMissing(pos, vel, att) == pos = None \/ vel = None \/ att = None

\* mutant: the speed check placed before the drift check
PollReasonSpeedFirst(m, pos, vel, att, t) ==
    IF TelemetryMissing(pos, vel, att) THEN ""
    ELSE IF TimeoutCond(t) THEN "MISSION TIMEOUT"
    ELSE IF SpeedCond(vel) THEN "SPEED TOO HIGH"
    ELSE IF DriftCond(m, pos, t) THEN "DRIFT TOO HIGH"
    ELSE IF AttitudeCond(att) THEN "UNSAFE ATTITUDE"
    ELSE ""

\* mutant: the timeout check placed before the unset-telemetry skip
PollReasonTimeoutBeforeSkip(m, pos, vel, att, t) ==
    IF TimeoutCond(t) THEN "MISSION TIMEOUT"
    ELSE IF TelemetryMissing(pos, vel, att) THEN ""
    ELSE IF DriftCond(m, pos, t) THEN "DRIFT TOO HIGH"
    ELSE IF SpeedCond(vel) THEN "SPEED TOO HIGH"
    ELSE IF AttitudeCond(att) THEN "UNSAFE ATTITUDE"
    ELSE ""

\* "" when the poll does not trip, else the reason recorded
PollReason(m, pos, vel, att, t) ==
    IF TelemetryMissing(pos, vel, att) THEN ""
    ELSE IF TimeoutCond(t) THEN "MISSION TIMEOUT"
    ELSE IF DriftCond(m, pos, t) THEN "DRIFT TOO HIGH"
    ELSE IF SpeedCond(vel) THEN "SPEED TOO HIGH"
    ELSE IF AttitudeCond(att) THEN "UNSAFE ATTITUDE"
    ELSE ""

----------------------------------------------------------------------------
Init ==
    /\ mission \in Missions
    /\ now = 0
    /\ cpu = "loop"
    /\ pos_ned = None /\ vel_ned = None /\ attitude_deg = None /\ flight_mode = "None"
    /\ running = TRUE /\ emergency_stop = FALSE /\ emergency_reason = ""
    /\ mission_phase = "INIT" /\ mission_t0_unix = NoTime
    /\ mainPc = "start_offboard" /\ mainResult = "none"
    /\ exec_t0 = NoTime
    /\ align = [x0 |-> 0, y0 |-> 0, z0 |-> 0, i |-> 0, t_end |-> NoTime]
    /\ svPc = "none" /\ sv_start = NoTime
    /\ recPc = "none" /\ csv_rows = 0
    /\ watchPc = [w \in Watchers |-> IF mission = "circle_position" THEN "waiting" ELSE "none"]
    /\ cancel_requested = {}
    /\ last_pass = {}
    /\ offboard_stop_calls = [i \in Issuers |-> 0]
    /\ land_calls = [i \in Issuers |-> 0]
    /\ setpoint = None
    /\ trajectory = None /\ last_call = None
    /\ kbPc = "none" /\ alt_target = 0 /\ down_sent = None
    /\ command_queue = <<>> /\ kb_cmd = <<0, 0, 0>> /\ land_attempt = 0 /\ disarm_calls = 0

----------------------------------------------------------------------------
(* Tasks, cancellation, actuator bookkeeping *)

Tasks == {"sv", "rec"} \cup Watchers
TaskPc(t) == IF t = "sv" THEN svPc ELSE IF t = "rec" THEN recPc ELSE watchPc[t]
TaskAlive(t) == TaskPc(t) \notin {"none", "finished", "cancelled", "failed"}
AliveTasks(ts) == {t \in ts : TaskAlive(t)}

\* a suspended task may be resumed: the loop is idle and no cancel() is pending on it;
\* once main has ended the loop makes one last pass, in which a task runs at most once
CanResume(t) ==
    /\ cpu = "loop" /\ t \notin cancel_requested
    /\ mainPc = "done" => t \in last_pass

Resumed(t) == last_pass' = last_pass \ {t}

\* drone.offboard.set_position_ned(PositionNedYaw(n, e, d, yaw)) is issued
IssueSetpoint(sp) ==
    /\ setpoint' = sp
    /\ UNCHANGED <<offboard_stop_calls, land_calls>>

\* main() ends: "returned", "raised", or "offboard_failed" (returned because offboard did not start)
MainEnds(result) ==
    /\ mainPc' = "done"
    /\ mainResult' = result
    /\ cpu' = "loop"
    /\ last_pass' = {t \in Tasks : TaskAlive(t) /\ t \notin cancel_requested}

\* figure8 and spiral run the Executor in try/finally
HasFinally(m) == m \in {"figure8", "spiral"}

\* where main goes when the Executor returns
AfterExecutorPc == IF HasFinally(mission) THEN "finally" ELSE "shutdown"

\* where main goes once the awaited logger task has ended
AfterLoggerPc == IF mission = "circle_position" THEN "land_only" ELSE "cancel_tasks"

\* how main ends when it leaves its finally block
FinallyResult == IF mainResult = "raising" THEN "raised" ELSE "returned"

----------------------------------------------------------------------------
(* main(): offboard start and set-up *)

\* await start_offboard(drone): True, or False on OffboardError
\* mutant: the mission goes on after a failed offboard start
MainStartOffboardIgnoresFailure ==
    /\ mainPc = "start_offboard" /\ cpu = "loop"
    /\ \E ok \in BOOLEAN :
          /\ mainPc' = "setup" /\ cpu' = "main"
          /\ mainResult' = IF ok THEN mainResult ELSE "offboard_failed"
          /\ UNCHANGED last_pass
    /\ UNCHANGED <<callVars, kbVars, mission, now, stateVars, exec_t0, align, svVars, recVars, watchPc,
                   cancel_requested, actuatorVars>>

\* await start_offboard(drone): True, or False on OffboardError
MainStartOffboardReturns ==
    /\ mainPc = "start_offboard" /\ cpu = "loop"
    /\ \E ok \in BOOLEAN :
          IF ok THEN /\ mainPc' = "setup" /\ cpu' = "main"
                     /\ UNCHANGED <<mainResult, last_pass>>
                ELSE MainEnds("offboard_failed")
    /\ UNCHANGED <<callVars, kbVars, mission, now, stateVars, exec_t0, align, svVars, recVars, watchPc,
                   cancel_requested, actuatorVars>>

\* SharedState(), the watcher and logger tasks, the trajectory
MainSetup ==
    /\ mainPc = "setup" /\ cpu = "main"
    /\ running' = IF mission \in {"figure8", "spiral"} THEN TRUE ELSE running
    /\ emergency_stop' = IF mission \in {"figure8", "spiral"} THEN FALSE ELSE emergency_stop
    /\ watchPc' = [w \in Watchers |-> "waiting"]
    /\ recPc' = "created"
    /\ mainPc' = IF mission \in AlignedMissions THEN "align_wait" ELSE "create_safety"
    /\ UNCHANGED <<callVars, kbVars, mission, now, cpu, telemetryVars, emergency_reason, markerVars,
                   mainResult, exec_t0, align, svVars, csv_rows,
                   cancelVars, actuatorVars>>

----------------------------------------------------------------------------
(* Alignment phase: goto_xy_linear / goto_xyz_linear *)

\* Python floats round the result of every operation to the nearest representable value
\* (ties to even).  Fl is that rounding for a binary format of MantissaBits significant
\* bits, on integers: every integer below 2^MantissaBits in magnitude is exact.
MantissaBits == 6
FlScale(n) == CHOOSE s \in {1, 2, 4, 8, 16, 32} :
                 /\ n \div s < 2^MantissaBits
                 /\ s = 1 \/ n \div (s \div 2) >= 2^MantissaBits
Fl(v) ==
    LET n == Abs(v)
        s == FlScale(n)
        q == n \div s
        r == n % s
        up == 2 * r > s \/ (2 * r = s /\ q % 2 = 1)
        rounded == (IF up THEN q + 1 ELSE q) * s
    IN IF v < 0 THEN -rounded ELSE rounded

\* alpha = (i + 1) / steps; x0 + alpha * (x_target - x0), with k = i + 1
Interpolate(from, to, k) == Fl(from + Fl((k * Fl(to - from)) \div AlignSteps))

AlignCommand(m, k) ==
    LET tg == AlignTarget(m)
        x == Interpolate(align.x0, tg[1], k)
        y == Interpolate(align.y0, tg[2], k)
        z == IF m = "spiral" THEN Interpolate(align.z0, tg[3], k)
                             ELSE -AltitudeDm
    IN <<x, y, z, 0>>

AlignHold(m) == <<AlignTarget(m)[1], AlignTarget(m)[2], AlignTarget(m)[3], 0>>

\* mutant: an alignment that takes an unset position for the origin
MainAlignWaitReadsZero ==
    /\ mainPc = "align_wait" /\ cpu = "main"
    /\ IF pos_ned = None /\ running /\ ~emergency_stop
       THEN /\ mainPc' = "align_wait_sleep" /\ cpu' = "loop"
            /\ UNCHANGED align
       ELSE /\ mainPc' = "align_loop"
            /\ align' = IF pos_ned = None THEN [align EXCEPT !.x0 = 0, !.y0 = 0, !.z0 = 0, !.i = 0]
                         ELSE [align EXCEPT !.x0 = pos_ned[1], !.y0 = pos_ned[2],
                                            !.z0 = pos_ned[3], !.i = 0]
            /\ UNCHANGED cpu
    /\ UNCHANGED <<callVars, kbVars, mission, now, stateVars, mainResult, exec_t0, svVars, recVars,
                   watchPc, cancelVars, actuatorVars>>

\* while state.pos_ned is None and state.running and not state.emergency_stop
MainAlignWait ==
    /\ mainPc = "align_wait" /\ cpu = "main"
    /\ IF pos_ned = None /\ running /\ ~emergency_stop
       THEN /\ mainPc' = "align_wait_sleep" /\ cpu' = "loop"
            /\ UNCHANGED align
       ELSE IF pos_ned = None
       THEN /\ mainPc' = "capture_t0"
            /\ UNCHANGED <<cpu, align>>
       ELSE /\ mainPc' = "align_loop"
            /\ align' = [align EXCEPT !.x0 = pos_ned[1], !.y0 = pos_ned[2],
                                      !.z0 = pos_ned[3], !.i = 0]
            /\ UNCHANGED cpu
    /\ UNCHANGED <<callVars, kbVars, mission, now, stateVars, mainResult, exec_t0, svVars, recVars,
                   watchPc, cancelVars, actuatorVars>>

MainAlignWaitWakes ==
    /\ mainPc = "align_wait_sleep" /\ cpu = "loop"
    /\ mainPc' = "align_wait" /\ cpu' = "main"
    /\ UNCHANGED <<callVars, kbVars, mission, now, stateVars, mainResult, exec_t0, align, svVars, recVars,
                   watchPc, cancelVars, actuatorVars>>

\* for i in range(steps): abort check, interpolated setpoint
MainAlignLoop ==
    /\ mainPc = "align_loop" /\ cpu = "main"
    /\ IF align.i < AlignSteps /\ running /\ ~emergency_stop
       THEN /\ IssueSetpoint(AlignCommand(mission, align.i + 1))
            /\ mainPc' = "align_send" /\ cpu' = "loop"
       ELSE /\ mainPc' = "settle_check"
            /\ UNCHANGED <<cpu, actuatorVars>>
    /\ UNCHANGED <<callVars, kbVars, mission, now, stateVars, mainResult, exec_t0, align, svVars, recVars,
                   watchPc, cancelVars>>

\* the awaited set_position_ned returns or raises (alignment and settle run outside any try)
MainAlignSendReturns ==
    /\ mainPc \in {"align_send", "settle_send"} /\ cpu = "loop"
    /\ \E ok \in BOOLEAN :
          IF ok THEN /\ mainPc' = IF mainPc = "align_send" THEN "align_sleep" ELSE "settle_sleep"
                     /\ UNCHANGED <<cpu, mainResult, last_pass>>
                ELSE MainEnds("raised")
    /\ UNCHANGED <<callVars, kbVars, mission, now, stateVars, exec_t0, align, svVars, recVars,
                   watchPc, cancel_requested, actuatorVars>>

MainAlignSleepWakes ==
    /\ mainPc = "align_sleep" /\ cpu = "loop"
    /\ mainPc' = "align_loop" /\ cpu' = "main"
    /\ align' = [align EXCEPT !.i = @ + 1]
    /\ UNCHANGED <<callVars, kbVars, mission, now, stateVars, mainResult, exec_t0, svVars, recVars,
                   watchPc, cancelVars, actuatorVars>>

\* mutant: t0 is captured when the settle hold begins, inside the alignment coroutine
MainSettleCheckCapturesT0 ==
    /\ mainPc = "settle_check" /\ cpu = "main"
    /\ IF SettleTicks > 0 /\ running /\ ~emergency_stop
       THEN /\ align' = [align EXCEPT !.t_end = now + SettleTicks]
            /\ exec_t0' = now
            /\ mainPc' = "settle_loop"
       ELSE /\ mainPc' = "capture_t0"
            /\ UNCHANGED <<align, exec_t0>>
    /\ UNCHANGED <<callVars, kbVars, mission, now, cpu, stateVars, mainResult, svVars, recVars,
                   watchPc, cancelVars, actuatorVars>>

\* if settle_s > 0.0 and state.running and not state.emergency_stop: t_end = time.time() + settle_s
MainSettleCheck ==
    /\ mainPc = "settle_check" /\ cpu = "main"
    /\ IF SettleTicks > 0 /\ running /\ ~emergency_stop
       THEN /\ align' = [align EXCEPT !.t_end = now + SettleTicks]
            /\ mainPc' = "settle_loop"
       ELSE /\ mainPc' = "capture_t0"
            /\ UNCHANGED align
    /\ UNCHANGED <<callVars, kbVars, mission, now, cpu, stateVars, mainResult, exec_t0, svVars, recVars,
                   watchPc, cancelVars, actuatorVars>>

\* while time.time() < t_end: hold the start point
MainSettleLoop ==
    /\ mainPc = "settle_loop" /\ cpu = "main"
    /\ IF now < align.t_end
       THEN /\ IssueSetpoint(AlignHold(mission))
            /\ mainPc' = "settle_send" /\ cpu' = "loop"
       ELSE /\ mainPc' = "capture_t0"
            /\ UNCHANGED <<cpu, actuatorVars>>
    /\ UNCHANGED <<callVars, kbVars, mission, now, stateVars, mainResult, exec_t0, align, svVars, recVars,
                   watchPc, cancelVars>>

MainSettleSleepWakes ==
    /\ mainPc = "settle_sleep" /\ cpu = "loop"
    /\ mainPc' = "settle_loop" /\ cpu' = "main"
    /\ UNCHANGED <<callVars, kbVars, mission, now, stateVars, mainResult, exec_t0, align, svVars, recVars,
                   watchPc, cancelVars, actuatorVars>>

----------------------------------------------------------------------------
(* main(): time origin, Supervisor creation, Executor *)

\* keyword arguments of the safety_watchdog(...) call in main
WatchdogCallKeywords(m) ==
    IF m \in AlignedMissions THEN {"reference_xy", "nominal_duration_s", "t0"}
                             ELSE {"reference_xy", "nominal_duration_s"}

\* parameters of safety_watchdog's signature
WatchdogParameters ==
    {"drone", "state", "reference_xy", "drift_max_m", "speed_max_m_s",
     "roll_pitch_max_deg", "timeout_factor", "nominal_duration_s"}

\* calling safety_watchdog binds the arguments: an unexpected keyword is a TypeError
WatchdogCallRaises(m) == WatchdogCallKeywords(m) \ WatchdogParameters # {}

\* mutant: the time origin is also recorded in the shared state
MainCaptureT0MarksPhase ==
    /\ mainPc = "capture_t0" /\ cpu = "main"
    /\ exec_t0' = now
    /\ mission_phase' = "TRAJECTORY" /\ mission_t0_unix' = now
    /\ mainPc' = IF mission \in AlignedMissions THEN "create_safety" ELSE "fly_check"
    /\ UNCHANGED <<callVars, kbVars, mission, now, cpu, telemetryVars, flagVars, mainResult,
                   align, svVars, recVars, watchPc, cancelVars, actuatorVars>>

\* t0 = time.time() (aligned missions), start_time = time.time() (fly_trajectory)
MainCaptureT0 ==
    /\ mainPc = "capture_t0" /\ cpu = "main"
    /\ exec_t0' = now
    /\ mainPc' = IF mission \in AlignedMissions THEN "create_safety" ELSE "fly_check"
    /\ UNCHANGED <<callVars, kbVars, mission, now, cpu, stateVars, mainResult, align, svVars, recVars,
                   watchPc, cancelVars, actuatorVars>>

\* asyncio.create_task(safety_watchdog(...)): in the aligned missions outside any try
MainCreateSafety ==
    /\ mainPc = "create_safety" /\ cpu = "main"
    /\ IF WatchdogCallRaises(mission)
       THEN /\ MainEnds("raised")
            /\ UNCHANGED svPc
       ELSE /\ svPc' = "created"
            /\ mainPc' = IF mission \in AlignedMissions THEN "fly_check" ELSE "capture_t0"
            /\ UNCHANGED <<cpu, mainResult, last_pass>>
    /\ UNCHANGED <<callVars, kbVars, mission, now, stateVars, exec_t0, align, sv_start, recVars,
                   watchPc, cancel_requested, actuatorVars>>

\* the setpoint of one Executor tick
TrajectorySetpoint(m, t) ==
    CASE m = "spiral" -> <<SpiralPositionXYZ(t)[1], SpiralPositionXYZ(t)[2], SpiralPositionXYZ(t)[3], 0>>
      [] m = "figure8" -> <<Figure8PositionXY(t)[1], Figure8PositionXY(t)[2], -AltitudeDm, 0>>
      [] OTHER -> <<CirclePositionXY(t)[1], CirclePositionXY(t)[2], -AltitudeDm, 0>>

\* mutant: the Executor's loop looks at the elapsed time only
ExecutorContinuesIgnoringFlags(t) == ~(t > Duration)

\* one pass of the Executor's while: loop condition, duration check, setpoint
ExecutorContinues(t) == running /\ ~emergency_stop /\ ~(t > Duration)

MainFlyCheck ==
    /\ mainPc = "fly_check" /\ cpu = "main"
    /\ IF ExecutorContinues(now - exec_t0)
       THEN /\ IssueSetpoint(TrajectorySetpoint(mission, now - exec_t0))
            /\ mainPc' = "fly_send" /\ cpu' = "loop"
       ELSE /\ mainPc' = AfterExecutorPc
            /\ UNCHANGED <<cpu, actuatorVars>>
    /\ UNCHANGED <<callVars, kbVars, mission, now, stateVars, mainResult, exec_t0, align, svVars, recVars,
                   watchPc, cancelVars>>

\* the awaited set_position_ned returns, or raises out of the Executor: into the finally
\* block of figure8 / spiral, out of main in the other missions
MainFlySendReturns ==
    /\ mainPc = "fly_send" /\ cpu = "loop"
    /\ \E ok \in BOOLEAN :
          IF ok THEN /\ mainPc' = "fly_sleep"
                     /\ UNCHANGED <<cpu, mainResult, last_pass>>
          ELSE IF HasFinally(mission)
               THEN /\ mainPc' = "finally" /\ mainResult' = "raising" /\ cpu' = "main"
                    /\ UNCHANGED last_pass
               ELSE MainEnds("raised")
    /\ UNCHANGED <<callVars, kbVars, mission, now, stateVars, exec_t0, align, svVars, recVars,
                   watchPc, cancel_requested, actuatorVars>>

MainFlySleepWakes ==
    /\ mainPc = "fly_sleep" /\ cpu = "loop"
    /\ mainPc' = "fly_check" /\ cpu' = "main"
    /\ UNCHANGED <<callVars, kbVars, mission, now, stateVars, mainResult, exec_t0, align, svVars, recVars,
                   watchPc, cancelVars, actuatorVars>>

----------------------------------------------------------------------------
(* main(): shutdown sequence of circle_autonomous_flight and circle_position_mission *)

\* state.running = False; await task_logger
MainShutdown ==
    /\ mainPc = "shutdown" /\ cpu = "main"
    /\ running' = FALSE
    /\ IF TaskAlive("rec")
       THEN mainPc' = "await_logger" /\ cpu' = "loop"
       ELSE mainPc' = AfterLoggerPc /\ UNCHANGED cpu
    /\ UNCHANGED <<callVars, kbVars, mission, now, telemetryVars, emergency_stop, emergency_reason, markerVars,
                   mainResult, exec_t0, align, svVars, recVars,
                   watchPc, cancelVars, actuatorVars>>

MainLoggerDone ==
    /\ mainPc = "await_logger" /\ cpu = "loop"
    /\ ~TaskAlive("rec")
    /\ mainPc' = AfterLoggerPc /\ cpu' = "main"
    /\ UNCHANGED <<callVars, kbVars, mission, now, stateVars, mainResult, exec_t0, align, svVars, recVars,
                   watchPc, cancelVars, actuatorVars>>

\* main lands itself only when no emergency was recorded
MainLandsItself == ~emergency_stop

\* for task in (...): task.cancel(); if not state.emergency_stop: await stop_offboard_and_land(drone)
MainCancelTasks ==
    /\ mainPc = "cancel_tasks" /\ cpu = "main"
    /\ cancel_requested' = cancel_requested \cup AliveTasks(Watchers \cup {"sv"})
    /\ IF MainLandsItself
       THEN /\ offboard_stop_calls' = [offboard_stop_calls EXCEPT !["main"] = @ + 1]
            /\ mainPc' = "main_stop" /\ cpu' = "loop"
            /\ UNCHANGED <<mainResult, last_pass>>
       ELSE /\ MainEnds("returned")
            /\ UNCHANGED offboard_stop_calls
    /\ UNCHANGED <<callVars, kbVars, mission, now, stateVars, exec_t0, align, svVars, recVars,
                   watchPc, land_calls, setpoint>>

\* stop_offboard_and_land: offboard.stop() returned or raised (swallowed); land is issued
MainStopReturns ==
    /\ mainPc = "main_stop" /\ cpu = "loop"
    /\ land_calls' = [land_calls EXCEPT !["main"] = @ + 1]
    /\ mainPc' = "main_land"
    /\ UNCHANGED <<callVars, kbVars, mission, now, cpu, stateVars, mainResult, exec_t0, align, svVars, recVars,
                   watchPc, cancelVars, offboard_stop_calls, setpoint>>

\* action.land() returned (then sleep) or raised: out of main, or, in figure8 / spiral,
\* suppressed by `with suppress(Exception)` at the end of the finally block
MainLandReturns ==
    /\ mainPc = "main_land" /\ cpu = "loop"
    /\ \E ok \in BOOLEAN :
          IF ok THEN /\ mainPc' = "main_land_sleep"
                     /\ UNCHANGED <<cpu, mainResult, last_pass>>
          ELSE IF HasFinally(mission) THEN MainEnds(FinallyResult)
               ELSE MainEnds("raised")
    /\ UNCHANGED <<callVars, kbVars, mission, now, stateVars, exec_t0, align, svVars, recVars,
                   watchPc, cancel_requested, actuatorVars>>

MainLandSleepWakes ==
    /\ mainPc = "main_land_sleep" /\ cpu = "loop"
    /\ MainEnds(IF HasFinally(mission) THEN FinallyResult ELSE "returned")
    /\ UNCHANGED <<callVars, kbVars, mission, now, stateVars, exec_t0, align, svVars, recVars,
                   watchPc, cancel_requested, actuatorVars>>

\* circle_position: await stop_offboard_and_land(drone), no task is cancelled
MainLandOnly ==
    /\ mainPc = "land_only" /\ cpu = "main"
    /\ offboard_stop_calls' = [offboard_stop_calls EXCEPT !["main"] = @ + 1]
    /\ mainPc' = "main_stop" /\ cpu' = "loop"
    /\ UNCHANGED <<callVars, kbVars, mission, now, stateVars, mainResult, exec_t0, align, svVars, recVars,
                   watchPc, cancelVars, land_calls, setpoint>>

----------------------------------------------------------------------------
(* main(): the finally block of figure8_autonomous_flight and spiral_position_mission *)

\* background_tasks: the three watchers and task_safety
BackgroundTasks == Watchers \cup {"sv"}

\* state.running = False; with suppress(Exception): await task_logger
MainFinally ==
    /\ mainPc = "finally" /\ cpu = "main"
    /\ running' = FALSE
    /\ IF TaskAlive("rec")
       THEN mainPc' = "fin_await_logger" /\ cpu' = "loop"
       ELSE mainPc' = "fin_cancel" /\ UNCHANGED cpu
    /\ UNCHANGED <<callVars, kbVars, mission, now, telemetryVars, emergency_stop, emergency_reason, markerVars,
                   mainResult, exec_t0, align, svVars, recVars,
                   watchPc, cancelVars, actuatorVars>>

MainFinLoggerDone ==
    /\ mainPc = "fin_await_logger" /\ cpu = "loop"
    /\ ~TaskAlive("rec")
    /\ mainPc' = "fin_cancel" /\ cpu' = "main"
    /\ UNCHANGED <<callVars, kbVars, mission, now, stateVars, mainResult, exec_t0, align, svVars, recVars,
                   watchPc, cancelVars, actuatorVars>>

\* cancel_and_await, first loop: t.cancel() on every background task; second loop: await
\* each, which suspends main while any of them is still alive
MainFinCancel ==
    /\ mainPc = "fin_cancel" /\ cpu = "main"
    /\ cancel_requested' = cancel_requested \cup AliveTasks(BackgroundTasks)
    /\ IF AliveTasks(BackgroundTasks) = {}
       THEN mainPc' = "fin_tasks_done" /\ UNCHANGED cpu
       ELSE mainPc' = "fin_await_tasks" /\ cpu' = "loop"
    /\ UNCHANGED <<callVars, kbVars, mission, now, stateVars, mainResult, exec_t0, align, svVars, recVars,
                   watchPc, last_pass, actuatorVars>>

MainFinTasksEnded ==
    /\ mainPc = "fin_await_tasks" /\ cpu = "loop"
    /\ AliveTasks(BackgroundTasks) = {}
    /\ mainPc' = "fin_tasks_done" /\ cpu' = "main"
    /\ UNCHANGED <<callVars, kbVars, mission, now, stateVars, mainResult, exec_t0, align, svVars, recVars,
                   watchPc, cancelVars, actuatorVars>>

\* `with suppress(asyncio.CancelledError): await t` re-raises what an awaited task ended with
\* unless it is CancelledError
AwaitedTaskRaises == \E t \in BackgroundTasks : TaskPc(t) = "failed"

\* the outcome of cancel_and_await: an exception out of the finally block, or on to
\* `with suppress(Exception): await stop_offboard_and_land(drone)`
MainFinAfterTasks ==
    /\ mainPc = "fin_tasks_done" /\ cpu = "main"
    /\ IF AwaitedTaskRaises
       THEN /\ MainEnds("raised")
            /\ UNCHANGED offboard_stop_calls
       ELSE /\ offboard_stop_calls' = [offboard_stop_calls EXCEPT !["main"] = @ + 1]
            /\ mainPc' = "main_stop" /\ cpu' = "loop"
            /\ UNCHANGED <<mainResult, last_pass>>
    /\ UNCHANGED <<callVars, kbVars, mission, now, stateVars, exec_t0, align, svVars, recVars,
                   watchPc, cancel_requested, land_calls, setpoint>>

\* asyncio.run: once main has ended, every task still alive is cancelled
LoopTeardown ==
    /\ mainPc = "done" /\ cpu = "loop"
    /\ mainPc' = "exited"
    /\ cancel_requested' = cancel_requested \cup AliveTasks(Tasks)
    /\ last_pass' = {}
    /\ UNCHANGED <<callVars, kbVars, mission, now, cpu, stateVars, mainResult, exec_t0, align, svVars, recVars,
                   watchPc, actuatorVars>>

----------------------------------------------------------------------------
(* safety_watchdog task *)

\* first run of the task: start = time.time()
SvStart ==
    /\ svPc = "created" /\ CanResume("sv")
    /\ Resumed("sv")
    /\ sv_start' = now
    /\ svPc' = "loop_check" /\ cpu' = "sv"
    /\ UNCHANGED <<callVars, kbVars, mission, now, stateVars, mainVars, recVars, watchPc,
                   cancel_requested, actuatorVars>>

\* while state.running and not state.emergency_stop: await asyncio.sleep(0.1)
SvLoopCondition == running /\ ~emergency_stop

SvLoopCheck ==
    /\ svPc = "loop_check" /\ cpu = "sv"
    /\ IF SvLoopCondition
       THEN svPc' = "sleep" /\ cpu' = "loop"
       ELSE svPc' = "after_loop" /\ UNCHANGED cpu
    /\ UNCHANGED <<callVars, kbVars, mission, now, stateVars, mainVars, sv_start, recVars, watchPc,
                   cancelVars, actuatorVars>>

SvWakes ==
    /\ svPc = "sleep" /\ CanResume("sv")
    /\ Resumed("sv")
    /\ svPc' = "poll" /\ cpu' = "sv"
    /\ UNCHANGED <<callVars, kbVars, mission, now, stateVars, mainVars, sv_start, recVars, watchPc,
                   cancel_requested, actuatorVars>>

\* the body of one poll: skip, pass, or record a trip and break
SvPoll ==
    /\ svPc = "poll" /\ cpu = "sv"
    /\ LET reason == PollReason(mission, pos_ned, vel_ned, attitude_deg, now - sv_start)
       IN IF reason = ""
          THEN /\ svPc' = "loop_check"
               /\ UNCHANGED <<emergency_stop, emergency_reason>>
          ELSE /\ emergency_stop' = TRUE
               /\ emergency_reason' = reason
               /\ svPc' = "after_loop"
    /\ UNCHANGED <<callVars, kbVars, mission, now, cpu, telemetryVars, running, markerVars, mainVars, sv_start,
                   recVars, watchPc, cancelVars, actuatorVars>>

\* mutant: the trip handler leaves running as it is
RunningAfterTripUnchanged == running

\* the value the trip handler writes to state.running
RunningAfterTrip == FALSE

\* mutant: the trip handler clears emergency_stop once it has started the landing
SvAfterLoopClearsEmergency ==
    /\ svPc = "after_loop" /\ cpu = "sv"
    /\ IF emergency_stop
       THEN /\ running' = FALSE
            /\ emergency_stop' = FALSE
            /\ offboard_stop_calls' = [offboard_stop_calls EXCEPT !["sv"] = @ + 1]
            /\ svPc' = "stop"
       ELSE /\ svPc' = "finished"
            /\ UNCHANGED <<running, emergency_stop, offboard_stop_calls>>
    /\ cpu' = "loop"
    /\ UNCHANGED <<callVars, kbVars, mission, now, telemetryVars, emergency_reason, markerVars,
                   mainVars, sv_start, recVars, watchPc, cancelVars,
                   land_calls, setpoint>>

\* if state.emergency_stop: state.running = False; await stop_offboard_and_land(drone)
SvAfterLoop ==
    /\ svPc = "after_loop" /\ cpu = "sv"
    /\ IF emergency_stop
       THEN /\ running' = RunningAfterTrip
            /\ offboard_stop_calls' = [offboard_stop_calls EXCEPT !["sv"] = @ + 1]
            /\ svPc' = "stop"
       ELSE /\ svPc' = "finished"
            /\ UNCHANGED <<running, offboard_stop_calls>>
    /\ cpu' = "loop"
    /\ UNCHANGED <<callVars, kbVars, mission, now, telemetryVars, emergency_stop, emergency_reason, markerVars,
                   mainVars, sv_start, recVars, watchPc, cancelVars,
                   land_calls, setpoint>>

\* offboard.stop() returned or raised (swallowed by except Exception); land is issued
SvStopReturns ==
    /\ svPc = "stop" /\ CanResume("sv")
    /\ Resumed("sv")
    /\ land_calls' = [land_calls EXCEPT !["sv"] = @ + 1]
    /\ svPc' = "land"
    /\ UNCHANGED <<callVars, kbVars, mission, now, cpu, stateVars, mainVars, sv_start, recVars, watchPc,
                   cancel_requested, offboard_stop_calls, setpoint>>

\* action.land() returned (then sleep) or raised out of the task
SvLandReturns ==
    /\ svPc = "land" /\ CanResume("sv")
    /\ Resumed("sv")
    /\ \E ok \in BOOLEAN : svPc' = IF ok THEN "land_sleep" ELSE "failed"
    /\ UNCHANGED <<callVars, kbVars, mission, now, cpu, stateVars, mainVars, sv_start, recVars, watchPc,
                   cancel_requested, actuatorVars>>

SvLandSleepWakes ==
    /\ svPc = "land_sleep" /\ CanResume("sv")
    /\ Resumed("sv")
    /\ svPc' = "finished"
    /\ UNCHANGED <<callVars, kbVars, mission, now, cpu, stateVars, mainVars, sv_start, recVars, watchPc,
                   cancel_requested, actuatorVars>>

----------------------------------------------------------------------------
(* log_telemetry_csv task *)

\* a row is written only when position and velocity are both set
LoggerWritesRow == pos_ned # None /\ vel_ned # None

\* mutant: a Recorder whose loop does not look at running
RecStepIgnoresRunning ==
    /\ recPc \in {"created", "sleep"} /\ CanResume("rec")
    /\ Resumed("rec")
    /\ recPc' = "sleep"
    /\ csv_rows' = IF LoggerWritesRow /\ csv_rows < MaxRows THEN csv_rows + 1 ELSE csv_rows
    /\ UNCHANGED <<callVars, kbVars, mission, now, cpu, stateVars, mainVars, svVars, watchPc,
                   cancel_requested, actuatorVars>>

\* while state.running: (row); await _sleep(0.1)
RecStep ==
    /\ recPc \in {"created", "sleep"} /\ CanResume("rec")
    /\ Resumed("rec")
    /\ IF running
       THEN /\ recPc' = "sleep"
            /\ csv_rows' = IF LoggerWritesRow /\ csv_rows < MaxRows THEN csv_rows + 1 ELSE csv_rows
       ELSE /\ recPc' = "finished"
            /\ UNCHANGED csv_rows
    /\ UNCHANGED <<callVars, kbVars, mission, now, cpu, stateVars, mainVars, svVars, watchPc,
                   cancel_requested, actuatorVars>>

----------------------------------------------------------------------------
(* telemetry watcher tasks *)

\* mutant: a watcher that never looks at running
WatcherNeverStops == "waiting"

\* after storing a sample: if not state.running: break
WatcherNextPc == IF running THEN "waiting" ELSE "finished"

\* mutant: position and velocity are stored from different messages
WatchPosVelUnpaired ==
    /\ watchPc["posvel"] = "waiting" /\ CanResume("posvel")
    /\ Resumed("posvel")
    /\ \E s1 \in PosVelSamples, s2 \in PosVelSamples :
          /\ pos_ned' = s1.pos
          /\ vel_ned' = s2.vel
    /\ watchPc' = [watchPc EXCEPT !["posvel"] = WatcherNextPc]
    /\ UNCHANGED <<callVars, kbVars, mission, now, cpu, attitude_deg, flight_mode, flagVars, markerVars,
                   mainVars, svVars, recVars, cancel_requested, actuatorVars>>

WatchPosVel ==
    /\ watchPc["posvel"] = "waiting" /\ CanResume("posvel")
    /\ Resumed("posvel")
    /\ \E s \in PosVelSamples :
          /\ pos_ned' = s.pos
          /\ vel_ned' = s.vel
    /\ watchPc' = [watchPc EXCEPT !["posvel"] = WatcherNextPc]
    /\ UNCHANGED <<callVars, kbVars, mission, now, cpu, attitude_deg, flight_mode, flagVars, markerVars,
                   mainVars, svVars, recVars, cancel_requested, actuatorVars>>

\* mutant: watch_attitude stores the flight mode as well
WatchAttitudeWritesFlightMode ==
    /\ watchPc["attitude"] = "waiting" /\ CanResume("attitude")
    /\ Resumed("attitude")
    /\ \E a \in AttitudeSamples : attitude_deg' = a
    /\ \E md \in FlightModeSamples : flight_mode' = md
    /\ watchPc' = [watchPc EXCEPT !["attitude"] = WatcherNextPc]
    /\ UNCHANGED <<callVars, kbVars, mission, now, cpu, pos_ned, vel_ned, flagVars, markerVars,
                   mainVars, svVars, recVars, cancel_requested, actuatorVars>>

WatchAttitude ==
    /\ watchPc["attitude"] = "waiting" /\ CanResume("attitude")
    /\ Resumed("attitude")
    /\ \E a \in AttitudeSamples : attitude_deg' = a
    /\ watchPc' = [watchPc EXCEPT !["attitude"] = WatcherNextPc]
    /\ UNCHANGED <<callVars, kbVars, mission, now, cpu, pos_ned, vel_ned, flight_mode, flagVars, markerVars,
                   mainVars, svVars, recVars, cancel_requested, actuatorVars>>

WatchFlightMode ==
    /\ watchPc["flight_mode"] = "waiting" /\ CanResume("flight_mode")
    /\ Resumed("flight_mode")
    /\ \E md \in FlightModeSamples : flight_mode' = md
    /\ watchPc' = [watchPc EXCEPT !["flight_mode"] = WatcherNextPc]
    /\ UNCHANGED <<callVars, kbVars, mission, now, cpu, pos_ned, vel_ned, attitude_deg, flagVars, markerVars,
                   mainVars, svVars, recVars, cancel_requested, actuatorVars>>

----------------------------------------------------------------------------
(* Cancellation *)

PcAfterCancel(t) == IF t \in cancel_requested THEN "cancelled" ELSE TaskPc(t)

\* the next pass of the event loop throws CancelledError into every task cancel() was
\* called on, at the await it is suspended in; no task catches it (except Exception
\* does not), so each ends there
CancelledErrorDelivered ==
    /\ cpu = "loop" /\ cancel_requested # {}
    /\ svPc' = PcAfterCancel("sv")
    /\ recPc' = PcAfterCancel("rec")
    /\ watchPc' = [w \in Watchers |-> PcAfterCancel(w)]
    /\ cancel_requested' = {}
    /\ UNCHANGED <<callVars, kbVars, mission, now, cpu, last_pass, stateVars, mainVars, sv_start, csv_rows, actuatorVars>>

----------------------------------------------------------------------------
\* time passes while the tasks are suspended (synchronous code takes no model time);
\* the clock reads 0 when start_offboard returns and is not followed once main has exited
Tick ==
    /\ cpu = "loop"
    /\ mainPc \notin {"start_offboard", "exited"}
    /\ now < MaxTime
    /\ now' = now + 1
    /\ UNCHANGED <<callVars, kbVars, mission, cpu, stateVars, mainVars, svVars, recVars, watchPc,
                   cancelVars, actuatorVars>>

----------------------------------------------------------------------------
(* Trajectory classes, called directly.  Lengths are integers in units of  *)
(* 1e-7 m, omega in rad/s, and the time argument in units of pi/2 s, so    *)
(* that omega * t counts quarter turns.                                    *)

MaxCallTime == 4
RadiusValues == {0, 5, 10, 11, 300}
CenterValues == {0, 7}
OmegaValues == {0, 1, 2}
StartZValues == {0, -20}
EndZValues == {-60}

\* math.cos, math.sin at q quarter turns
CosQuarterTurns(q) == CASE q % 4 = 0 -> 1 [] q % 4 = 2 -> -1 [] OTHER -> 0
SinQuarterTurns(q) == CASE q % 4 = 1 -> 1 [] q % 4 = 3 -> -1 [] OTHER -> 0

\* math.degrees(math.atan2(y, x)) on the axes and the diagonals
Atan2Deg(y, x) ==
    CASE x > 0 /\ y = 0 -> 0
      [] x > 0 /\ y = x -> 45
      [] x = 0 /\ y > 0 -> 90
      [] x < 0 /\ y = -x -> 135
      [] x < 0 /\ y = 0 -> 180
      [] x < 0 /\ y = x -> -135
      [] x = 0 /\ y < 0 -> -90
      [] x > 0 /\ y = -x -> -45
      [] OTHER -> 0

\* 1e-6, in units of 1e-7
YawEps == 10

\* __init__ of the three classes: the arguments are stored as given
NewTrajectory(kind, radius, center_x, center_y, start_z, end_z, omega) ==
    [kind |-> kind, R |-> radius, cx |-> center_x, cy |-> center_y, w |-> omega,
     z0 |-> IF kind = "spiral" THEN start_z ELSE 0,
     zf |-> IF kind = "spiral" THEN end_z ELSE 0]

\* duration(): 2 * math.pi / self.w, in units of pi/2 s
TrajectoryDuration(self) == IF self.w = 0 THEN "ZeroDivisionError" ELSE 4 \div self.w

Figure8_position_xy(self, t) ==
    <<self.cx + self.R * SinQuarterTurns(self.w * t),
      self.cy + (self.R * SinQuarterTurns(2 * self.w * t)) \div 2>>

\* mutant: the circle starts a quarter turn late (sine and cosine exchanged)
Circle_position_xy_quarter_late(self, t) ==
    <<self.cx + self.R * SinQuarterTurns(self.w * t),
      self.cy + self.R * CosQuarterTurns(self.w * t)>>

Circle_position_xy(self, t) ==
    <<self.cx + self.R * CosQuarterTurns(self.w * t),
      self.cy + self.R * SinQuarterTurns(self.w * t)>>

Spiral_position_xyz(self, t) ==
    IF self.w = 0 THEN TrajectoryDuration(self)
    ELSE <<self.cx + self.R * CosQuarterTurns(self.w * t),
           self.cy + self.R * SinQuarterTurns(self.w * t),
           self.z0 + ((self.zf - self.z0) * t) \div TrajectoryDuration(self)>>

\* mutant: yaw_deg without the small-velocity case
Figure8_yaw_deg_always_atan2(self, t) ==
    LET vx == self.R * self.w * CosQuarterTurns(self.w * t)
        vy == self.R * self.w * CosQuarterTurns(2 * self.w * t)
    IN Atan2Deg(vy, vx)

Figure8_yaw_deg(self, t) ==
    LET vx == self.R * self.w * CosQuarterTurns(self.w * t)
        vy == self.R * self.w * CosQuarterTurns(2 * self.w * t)
    IN IF Abs(vx) < YawEps /\ Abs(vy) < YawEps THEN 0 ELSE Atan2Deg(vy, vx)

\* the operations of each class
TrajectoryOps(self) ==
    CASE self.kind = "circle" -> {"position_xy", "duration"}
      [] self.kind = "figure8" -> {"position_xy", "yaw_deg", "duration"}
      [] OTHER -> {"position_xyz", "duration"}

\* value returned (or exception raised) by self.op(t)
CallValue(self, op, t) ==
    CASE op = "duration" -> TrajectoryDuration(self)
      [] op = "yaw_deg" -> Figure8_yaw_deg(self, t)
      [] op = "position_xyz" -> Spiral_position_xyz(self, t)
      [] OTHER -> IF self.kind = "circle" THEN Circle_position_xy(self, t)
                                          ELSE Figure8_position_xy(self, t)

programVars == <<mission, now, cpu, stateVars, mainVars, svVars, recVars, watchPc,
                 cancelVars, actuatorVars, kbVars>>

\* CircleTrajectory(...), Figure8Trajectory(...), SpiralTrajectory(...)
Construct ==
    /\ trajectory = None
    /\ \E kind \in {"circle", "figure8", "spiral"}, radius \in RadiusValues,
          center_x \in CenterValues, center_y \in CenterValues,
          start_z \in StartZValues, end_z \in EndZValues, omega \in OmegaValues :
          trajectory' = NewTrajectory(kind, radius, center_x, center_y, start_z, end_z, omega)
    /\ UNCHANGED <<last_call, programVars>>

\* mutant: a position call that keeps the last phase in the object
CallPositionStoresPhase ==
    /\ trajectory # None
    /\ \E op \in TrajectoryOps(trajectory) \ {"yaw_deg", "duration"}, t \in 0..MaxCallTime :
          /\ last_call' = [op |-> op, t |-> t, value |-> CallValue(trajectory, op, t)]
          /\ trajectory' = [trajectory EXCEPT !.cx = @ + t]
    /\ UNCHANGED programVars

\* trajectory.position_xy(t) / trajectory.position_xyz(t)
CallPosition ==
    /\ trajectory # None
    /\ \E op \in TrajectoryOps(trajectory) \ {"yaw_deg", "duration"}, t \in 0..MaxCallTime :
          last_call' = [op |-> op, t |-> t, value |-> CallValue(trajectory, op, t)]
    /\ UNCHANGED <<trajectory, programVars>>

\* trajectory.yaw_deg(t)
CallYawDeg ==
    /\ trajectory # None /\ "yaw_deg" \in TrajectoryOps(trajectory)
    /\ \E t \in 0..MaxCallTime :
          last_call' = [op |-> "yaw_deg", t |-> t, value |-> CallValue(trajectory, "yaw_deg", t)]
    /\ UNCHANGED <<trajectory, programVars>>

\* trajectory.duration()
CallDuration ==
    /\ trajectory # None
    /\ last_call' = [op |-> "duration", t |-> 0, value |-> CallValue(trajectory, "duration", 0)]
    /\ UNCHANGED <<trajectory, programVars>>

\* no trajectory object yet; the mission tasks are not started
TrajectoryInit == Init /\ mission = "circle_autonomous"

TrajectoryNext == Construct \/ CallPosition \/ CallYawDeg \/ CallDuration


----------------------------------------------------------------------------
(* keyboard_velocity_control: the curses thread, position_control_loop and  *)
(* the wind-down of main().  Altitudes in centimetres; vx_cmd and vy_cmd in *)
(* units of SPEED_M_S, the yaw rate in units of degrees(YAW_RATE_RAD_S).    *)
(* The integrated horizontal and yaw targets are not carried.  The logger,  *)
(* the watchers and the curses thread are taken as ended when main awaits   *)
(* them in its finally block.                                               *)

ALT_STEP_M == 15
ALT_MIN_M == 100
ALT_MAX_M == 400
SPEED_M_S == 1
MaxQueue == 1
LandAttempts == 3

\* down coordinate of the telemetry position when control goes live
InitialDownValues == {0, -100, -390, -400, -500}
\* keys the curses thread may queue ("x": a key with no binding)
ArrowKeys == {"KEY_UP", "KEY_DOWN", "KEY_RIGHT", "KEY_LEFT"}
Keys == ArrowKeys \cup {"w", "s", "a", "d", " ", "q", "x"}

\* mutant: only the upper limit is applied
clampUpperOnly(v, lo, hi) == IF hi < v THEN hi ELSE v

\* max(lo, min(hi, v))
clamp(v, lo, hi) ==
    LET m == IF hi < v THEN hi ELSE v
    IN IF lo > m THEN lo ELSE m

\* key = command_queue.get_nowait(), None on QueueEmpty
NextKey == IF command_queue = <<>> THEN "QueueEmpty" ELSE Head(command_queue)

\* alt_target after the key was handled, before the limiter
AltAfterKey(key) ==
    CASE key = "w" -> alt_target + ALT_STEP_M
      [] key = "s" -> alt_target - ALT_STEP_M
      [] OTHER -> alt_target

\* mutant: the commands last for one tick only
CmdAfterKeyOneTick(key, cmd) ==
    CASE key = "KEY_UP" -> <<SPEED_M_S, 0, 0>>
      [] key = "KEY_DOWN" -> <<-SPEED_M_S, 0, 0>>
      [] key = "KEY_RIGHT" -> <<0, SPEED_M_S, 0>>
      [] key = "KEY_LEFT" -> <<0, -SPEED_M_S, 0>>
      [] key = "a" -> <<0, 0, -1>>
      [] key = "d" -> <<0, 0, 1>>
      [] OTHER -> <<0, 0, 0>>

\* <<vx_cmd, vy_cmd, yaw_rate_cmd_deg_s>> after the key was handled
CmdAfterKey(key, cmd) ==
    CASE key = "KEY_UP" -> <<SPEED_M_S, 0, cmd[3]>>
      [] key = "KEY_DOWN" -> <<-SPEED_M_S, 0, cmd[3]>>
      [] key = "KEY_RIGHT" -> <<0, SPEED_M_S, cmd[3]>>
      [] key = "KEY_LEFT" -> <<0, -SPEED_M_S, cmd[3]>>
      [] key = "a" -> <<cmd[1], cmd[2], -1>>
      [] key = "d" -> <<cmd[1], cmd[2], 1>>
      [] key = " " -> <<0, 0, 0>>
      [] OTHER -> cmd

\* mutant: no key ends the loop
KeyQuitsNever(key) == FALSE

\* elif key == ord("q"): state.running = False; break
KeyQuits(key) == key = "q"

\* keyboard_ui, in its own thread: while state.running: key = getch(); put_nowait(key)
KbKeyPress ==
    /\ running /\ Len(command_queue) < MaxQueue
    /\ \E key \in Keys : command_queue' = Append(command_queue, key)
    /\ UNCHANGED <<kbPc, alt_target, down_sent, kb_cmd, land_attempt, disarm_calls,
                   callVars, mission, now, cpu, stateVars, mainVars, svVars,
                   recVars, watchPc, cancelVars, actuatorVars>>

\* while state.running and command_queue.empty(): sleep; if not state.running: return;
\* x_target, y_target, down_target = state.pos_ned; alt_target = -down_target; commands 0
KbControlLive ==
    /\ kbPc = "wait_first_key" /\ (~running \/ command_queue # <<>>)
    /\ IF running
       THEN /\ alt_target' = -pos_ned[3]
            /\ kb_cmd' = <<0, 0, 0>>
            /\ kbPc' = "loop"
       ELSE /\ kbPc' = "returned"
            /\ UNCHANGED <<alt_target, kb_cmd>>
    /\ UNCHANGED <<down_sent, command_queue, land_attempt, disarm_calls,
                   callVars, mission, now, cpu, stateVars, mainVars, svVars,
                   recVars, watchPc, cancelVars, actuatorVars>>

\* one pass of `while state.running and not state.emergency_stop:` up to the awaited
\* set_position_ned: read a key, change the commands and alt_target, clamp, send
KbIteration ==
    /\ kbPc = "loop"
    /\ IF running /\ ~emergency_stop
       THEN /\ command_queue' = IF command_queue = <<>> THEN command_queue
                                                        ELSE Tail(command_queue)
            /\ IF KeyQuits(NextKey)
               THEN /\ running' = FALSE
                    /\ kbPc' = "ended"
                    /\ UNCHANGED <<alt_target, down_sent, kb_cmd>>
               ELSE /\ kb_cmd' = CmdAfterKey(NextKey, kb_cmd)
                    /\ alt_target' = clamp(AltAfterKey(NextKey), ALT_MIN_M, ALT_MAX_M)
                    /\ down_sent' = <<-alt_target'>>
                    /\ kbPc' = "send"
                    /\ UNCHANGED running
       ELSE /\ kbPc' = "ended"
            /\ UNCHANGED <<running, alt_target, down_sent, kb_cmd, command_queue>>
    /\ UNCHANGED <<land_attempt, disarm_calls,
                   callVars, mission, now, cpu, telemetryVars, emergency_stop,
                   emergency_reason, markerVars, mainVars, svVars, recVars, watchPc,
                   cancelVars, actuatorVars>>

\* await drone.offboard.set_position_ned(...) returns or raises
KbSendReturns ==
    /\ kbPc = "send"
    /\ \E ok \in BOOLEAN : kbPc' = IF ok THEN "sleep" ELSE "raised"
    /\ UNCHANGED <<alt_target, down_sent, command_queue, kb_cmd, land_attempt, disarm_calls,
                   callVars, mission, now, cpu, stateVars, mainVars,
                   svVars, recVars, watchPc, cancelVars, actuatorVars>>

\* await asyncio.sleep(dt) returns
KbSleepWakes ==
    /\ kbPc = "sleep"
    /\ kbPc' = "loop"
    /\ UNCHANGED <<alt_target, down_sent, command_queue, kb_cmd, land_attempt, disarm_calls,
                   callVars, mission, now, cpu, stateVars, mainVars,
                   svVars, recVars, watchPc, cancelVars, actuatorVars>>

\* position_control_loop has returned or raised
KbControlLoopOver == kbPc \in {"ended", "returned", "raised"}

\* finally: state.running = False; the logger, the watchers and the curses thread are
\* awaited; await drone.offboard.stop() is issued
KbMainFinally ==
    /\ mainPc = "await_control_loop" /\ KbControlLoopOver
    /\ running' = FALSE
    /\ mainResult' = IF kbPc = "raised" THEN "raising" ELSE mainResult
    /\ offboard_stop_calls' = [offboard_stop_calls EXCEPT !["main"] = @ + 1]
    /\ mainPc' = "kb_stop"
    /\ UNCHANGED <<kbVars, callVars, mission, now, cpu, telemetryVars, emergency_stop,
                   emergency_reason, markerVars, exec_t0, align, svVars, recVars, watchPc,
                   cancelVars, land_calls, setpoint>>

\* with suppress(Exception): await drone.offboard.stop(); then await asyncio.sleep(0.5)
KbMainStopReturns ==
    /\ mainPc = "kb_stop"
    /\ \E ok \in BOOLEAN : mainPc' = "kb_stop_sleep"
    /\ UNCHANGED <<kbVars, callVars, mission, now, cpu, stateVars, mainResult, exec_t0, align,
                   svVars, recVars, watchPc, cancelVars, actuatorVars>>

\* for attempt in range(3): await drone.action.land() is issued; after the last failed
\* attempt: await drone.action.disarm() is issued
KbMainLandAttempt ==
    /\ mainPc \in {"kb_stop_sleep", "kb_land_retry_sleep"}
    /\ IF land_attempt < LandAttempts
       THEN /\ land_calls' = [land_calls EXCEPT !["main"] = @ + 1]
            /\ mainPc' = "kb_land"
            /\ UNCHANGED disarm_calls
       ELSE /\ disarm_calls' = disarm_calls + 1
            /\ mainPc' = "kb_disarm"
            /\ UNCHANGED land_calls
    /\ UNCHANGED <<kbPc, alt_target, down_sent, command_queue, kb_cmd, land_attempt,
                   callVars, mission, now, cpu, stateVars, mainResult, exec_t0, align,
                   svVars, recVars, watchPc, cancelVars, offboard_stop_calls, setpoint>>

\* land() returns: landed = True, main ends; or raises: await asyncio.sleep(1.0)
KbMainLandReturns ==
    /\ mainPc = "kb_land"
    /\ \E ok \in BOOLEAN :
          IF ok THEN /\ mainPc' = "done" /\ mainResult' = FinallyResult
                     /\ UNCHANGED land_attempt
                ELSE /\ mainPc' = "kb_land_retry_sleep"
                     /\ land_attempt' = land_attempt + 1
                     /\ UNCHANGED mainResult
    /\ UNCHANGED <<kbPc, alt_target, down_sent, command_queue, kb_cmd, disarm_calls,
                   callVars, mission, now, cpu, stateVars, exec_t0, align,
                   svVars, recVars, watchPc, cancelVars, actuatorVars>>

\* with suppress(Exception): await drone.action.disarm(); main ends
KbMainDisarmReturns ==
    /\ mainPc = "kb_disarm"
    /\ \E ok \in BOOLEAN : mainPc' = "done"
    /\ mainResult' = FinallyResult
    /\ UNCHANGED <<kbVars, callVars, mission, now, cpu, stateVars, exec_t0, align,
                   svVars, recVars, watchPc, cancelVars, actuatorVars>>

\* main() of the keyboard mission awaits position_control_loop, a position is known
KeyboardInit ==
    /\ mission = "keyboard_velocity_control"
    /\ now = 0 /\ cpu = "loop"
    /\ \E d \in InitialDownValues : pos_ned = <<0, 0, d>>
    /\ vel_ned = <<0, 0, 0>> /\ attitude_deg = None /\ flight_mode = "None"
    /\ running = TRUE /\ emergency_stop = FALSE /\ emergency_reason = ""
    /\ mission_phase = "INIT" /\ mission_t0_unix = NoTime
    /\ mainPc = "await_control_loop" /\ mainResult = "none"
    /\ exec_t0 = NoTime
    /\ align = [x0 |-> 0, y0 |-> 0, z0 |-> 0, i |-> 0, t_end |-> NoTime]
    /\ svPc = "none" /\ sv_start = NoTime
    /\ recPc = "none" /\ csv_rows = 0
    /\ watchPc = [w \in Watchers |-> "none"]
    /\ cancel_requested = {}
    /\ last_pass = {}
    /\ offboard_stop_calls = [i \in Issuers |-> 0]
    /\ land_calls = [i \in Issuers |-> 0]
    /\ setpoint = None
    /\ trajectory = None /\ last_call = None
    /\ kbPc = "wait_first_key" /\ alt_target = 0 /\ down_sent = None
    /\ command_queue = <<>> /\ kb_cmd = <<0, 0, 0>> /\ land_attempt = 0 /\ disarm_calls = 0

KbMainNext ==
    \/ KbMainFinally
    \/ KbMainStopReturns
    \/ KbMainLandAttempt
    \/ KbMainLandReturns
    \/ KbMainDisarmReturns

KeyboardNext ==
    \/ KbKeyPress
    \/ KbControlLive
    \/ KbIteration
    \/ KbSendReturns
    \/ KbSleepWakes
    \/ KbMainNext


----------------------------------------------------------------------------
(* The alignment phase on its own, from the wait for a first position *)

\* The function is entered with the shared state as its input: a position known or not
\* yet, the flags in either state.
\* north and east of the position read when alignment starts
AlignStartNorth == {-37, -36, -30, 10, 30, 48}
AlignStartEast == {0, -36}

AlignInit ==
    /\ mission \in AlignedMissions
    /\ now = 0 /\ cpu = "main"
    /\ \/ pos_ned = None /\ vel_ned = None
       \/ \E x \in AlignStartNorth, y \in AlignStartEast :
             pos_ned = <<x, y, -AltitudeDm>> /\ vel_ned = <<0, 0, 0>>
    /\ attitude_deg = None /\ flight_mode = "None"
    /\ running \in BOOLEAN /\ emergency_stop \in BOOLEAN /\ emergency_reason = ""
    /\ mission_phase = "INIT" /\ mission_t0_unix = NoTime
    /\ mainPc = "align_wait" /\ mainResult = "none"
    /\ exec_t0 = NoTime
    /\ align = [x0 |-> 0, y0 |-> 0, z0 |-> 0, i |-> 0, t_end |-> NoTime]
    /\ svPc = "none" /\ sv_start = NoTime
    /\ recPc = "none" /\ csv_rows = 0
    /\ watchPc = [w \in Watchers |-> "waiting"]
    /\ cancel_requested = {}
    /\ last_pass = {}
    /\ offboard_stop_calls = [i \in Issuers |-> 0]
    /\ land_calls = [i \in Issuers |-> 0]
    /\ setpoint = None
    /\ trajectory = None /\ last_call = None
    /\ kbPc = "none" /\ alt_target = 0 /\ down_sent = None
    /\ command_queue = <<>> /\ kb_cmd = <<0, 0, 0>> /\ land_attempt = 0 /\ disarm_calls = 0

AlignNext ==
    \/ MainAlignWait
    \/ MainAlignWaitWakes
    \/ MainAlignLoop
    \/ MainAlignSendReturns
    \/ MainAlignSleepWakes
    \/ WatchPosVel


Next ==
    \/ Tick
    \/ MainStartOffboardReturns
    \/ MainSetup
    \/ MainAlignWait
    \/ MainAlignWaitWakes
    \/ MainAlignLoop
    \/ MainAlignSendReturns
    \/ MainAlignSleepWakes
    \/ MainSettleCheck
    \/ MainSettleLoop
    \/ MainSettleSleepWakes
    \/ MainCaptureT0
    \/ MainCreateSafety
    \/ MainFlyCheck
    \/ MainFlySendReturns
    \/ MainFlySleepWakes
    \/ MainShutdown
    \/ MainLoggerDone
    \/ MainCancelTasks
    \/ MainStopReturns
    \/ MainLandReturns
    \/ MainLandSleepWakes
    \/ LoopTeardown
    \/ SvStart
    \/ SvLoopCheck
    \/ SvWakes
    \/ SvPoll
    \/ SvAfterLoop
    \/ SvStopReturns
    \/ SvLandReturns
    \/ SvLandSleepWakes
    \/ RecStep
    \/ WatchPosVel
    \/ WatchAttitude
    \/ WatchFlightMode
    \/ CancelledErrorDelivered

----------------------------------------------------------------------------
(* Properties *)

\* main has exited and every task has ended
MissionOver == mainPc = "exited" /\ cancel_requested = {}
OffboardWasStarted == mainResult # "offboard_failed"
TotalLandCalls == land_calls["main"] + land_calls["sv"]
TotalStopCalls == offboard_stop_calls["main"] + offboard_stop_calls["sv"]
\* every task is at an await (or ended): another task can run
AtSuspensionPoint == cpu = "loop"
\* the step is the body of one Supervisor poll
IsPollStep == svPc = "poll" /\ svPc' # "poll"
PollElapsed == now - sv_start

\* C1: in every mission run in which offboard was started, whatever ends the run, the
\* terminal actuator sequence (stop offboard, then land) has been issued exactly once in
\* total by safety_watchdog and main when the run is over.
C1_TerminalSequenceExactlyOnce ==
    (MissionOver /\ OffboardWasStarted) => (TotalStopCalls = 1 /\ TotalLandCalls = 1)

\* C2: in the figure-8 and spiral missions, once offboard has been started, main never
\* ends (by return or by exception) without having issued stop-offboard and land itself.
C2_MainLandsBeforeItEnds ==
    (mission \in {"figure8", "spiral"} /\ mainPc \in {"done", "exited"} /\ OffboardWasStarted)
        => (offboard_stop_calls["main"] >= 1 /\ land_calls["main"] >= 1)

\* C3: in circle_autonomous_flight, a mission that is over with emergency_stop true has
\* had a land command issued (stated for the runs in which main returned through its
\* shutdown sequence, where main skips its own landing and cancels the Supervisor).
C3_EmergencyEndsWithLand ==
    (mission = "circle_autonomous" /\ MissionOver /\ mainResult = "returned" /\ emergency_stop)
        => TotalLandCalls >= 1

\* C4: whenever the Executor and the Supervisor both have a time origin, it is the same
\* one, so both compute the same elapsed time from the same clock reading.
C4_SameTimeOrigin ==
    (exec_t0 # NoTime /\ sv_start # NoTime) => (now - sv_start = now - exec_t0)

\* C5: in the aligned missions, after alignment has ended and t0 has been captured, main
\* goes on to start the Supervisor with that t0 before the trajectory: main is never past
\* the creation of the Supervisor task without a Supervisor task existing.
C5_SupervisorStartedAfterT0 ==
    (mission \in AlignedMissions /\ exec_t0 # NoTime /\ mainPc \notin {"capture_t0", "create_safety"})
        => svPc # "none"

\* C6: a trip is absorbing: no step sets emergency_stop back to false, and no step
\* changes emergency_reason once it is non-empty.
C6_TripAbsorbing ==
    [][ /\ (emergency_stop => emergency_stop')
        /\ (emergency_reason # "" => emergency_reason' = emergency_reason) ]_vars

\* a mission run has gone on after a trip, to its end
C6_Witness ==
    MissionOver /\ emergency_stop /\ emergency_reason = "DRIFT TOO HIGH" /\ svPc = "finished"

\* C7: no step sets running back to true once it is false, and running has changed from
\* true to false (exactly once) by the time a mission run with offboard started is over.
C7_RunningFalseExactlyOnce ==
    (MissionOver /\ OffboardWasStarted) => ~running

\* C7, first half alone: no step takes running from false to true.
C7_NeverBackToTrue == [][ ~running => ~running' ]_vars

\* C8: at every point where another task can run, emergency_stop implies that running is
\* false, that emergency_reason is non-empty and that the Supervisor has already issued
\* stop-offboard (it suspended for nothing else between the trip and the terminal sequence).
C8_TripAtomic ==
    (AtSuspensionPoint /\ emergency_stop)
        => (~running /\ emergency_reason # "" /\ offboard_stop_calls["sv"] = 1)

\* the Supervisor has tripped and is cancelled while its stop-offboard call is in flight
C8_Witness ==
    AtSuspensionPoint /\ emergency_stop /\ svPc = "stop" /\ "sv" \in cancel_requested

\* C9: a poll with all telemetry set records the first condition that holds in the order
\* timeout, drift, speed, attitude, whatever other conditions hold with it; with no
\* condition holding it records nothing.
C9_PriorityOrder ==
    [][ (IsPollStep /\ ~TelemetryMissing(pos_ned, vel_ned, attitude_deg)) =>
          LET timeout == TimeoutCond(PollElapsed)
              drift == DriftCond(mission, pos_ned, PollElapsed)
              speed == SpeedCond(vel_ned)
              attitude == AttitudeCond(attitude_deg)
          IN /\ timeout => emergency_reason' = "MISSION TIMEOUT"
             /\ (~timeout /\ drift) => emergency_reason' = "DRIFT TOO HIGH"
             /\ (~timeout /\ ~drift /\ speed) => emergency_reason' = "SPEED TOO HIGH"
             /\ (~timeout /\ ~drift /\ ~speed /\ attitude) => emergency_reason' = "UNSAFE ATTITUDE"
             /\ (~timeout /\ ~drift /\ ~speed /\ ~attitude) =>
                    (emergency_reason' = emergency_reason /\ ~emergency_stop')
      ]_vars

\* a poll has just recorded a timeout while drift, speed and attitude were out of bounds too
C9_Witness ==
    /\ svPc = "after_loop" /\ emergency_reason = "MISSION TIMEOUT"
    /\ ~TelemetryMissing(pos_ned, vel_ned, attitude_deg)
    /\ TimeoutCond(PollElapsed)
    /\ DriftCond(mission, pos_ned, PollElapsed)
    /\ SpeedCond(vel_ned)
    /\ AttitudeCond(attitude_deg)

\* C10: a poll in which position, velocity or attitude is unset trips nothing, whatever
\* the elapsed time: emergency_stop, emergency_reason and running are unchanged by it.
C10_SkipWhenTelemetryUnset ==
    [][ (IsPollStep /\ TelemetryMissing(pos_ned, vel_ned, attitude_deg)) =>
          /\ emergency_stop' = emergency_stop
          /\ emergency_reason' = emergency_reason
          /\ running' = running
          /\ svPc' = "loop_check"
      ]_vars

\* a poll has just been skipped for unset telemetry although the timeout had passed
C10_Witness ==
    /\ svPc = "loop_check" /\ cpu = "sv"
    /\ TelemetryMissing(pos_ned, vel_ned, attitude_deg)
    /\ TimeoutCond(PollElapsed)
    /\ ~emergency_stop /\ running

\* squared planar distance between the position snapshot and the reference at elapsed time t
PlanarDriftSquared(t) ==
    LET ref == ReferenceXY(mission, t)
    IN (pos_ned[1] - ref[1]) * (pos_ned[1] - ref[1]) + (pos_ned[2] - ref[2]) * (pos_ned[2] - ref[2])
\* squared 3D speed of the velocity snapshot
SpeedSquared == vel_ned[1] * vel_ned[1] + vel_ned[2] * vel_ned[2] + vel_ned[3] * vel_ned[3]

\* C11: a poll with all telemetry set and no timeout records DRIFT TOO HIGH exactly when
\* the planar distance between the position it observes and the reference at its elapsed
\* time is strictly greater than drift_max; a poll that observes a smaller or equal
\* distance (equal included) records no drift trip, so the trip is in the first poll that
\* observes the excess and in no earlier one.
C11_DriftTripsFirstExceedingPoll ==
    [][ (IsPollStep /\ ~TelemetryMissing(pos_ned, vel_ned, attitude_deg)
                    /\ ~(PollElapsed * TimeoutFactorDen > Duration * TimeoutFactorNum)) =>
          IF PlanarDriftSquared(PollElapsed) > DriftMax * DriftMax
          THEN emergency_stop' /\ emergency_reason' = "DRIFT TOO HIGH" /\ svPc' = "after_loop"
          ELSE emergency_reason' # "DRIFT TOO HIGH"
      ]_vars

\* a poll has just recorded a drift trip on a position farther than drift_max from the reference
C11_Witness ==
    /\ svPc = "after_loop" /\ emergency_stop /\ emergency_reason = "DRIFT TOO HIGH"
    /\ pos_ned # None
    /\ PlanarDriftSquared(PollElapsed) > DriftMax * DriftMax

\* C12: a poll with all telemetry set, no timeout and drift within drift_max records
\* SPEED TOO HIGH exactly when the 3D speed of the velocity snapshot it observes is
\* strictly greater than speed_max (4.0 m/s against 3.5 m/s trips; 3.5 m/s does not).
C12_SpeedTripsAtNextPoll ==
    [][ (IsPollStep /\ ~TelemetryMissing(pos_ned, vel_ned, attitude_deg)
                    /\ ~(PollElapsed * TimeoutFactorDen > Duration * TimeoutFactorNum)
                    /\ PlanarDriftSquared(PollElapsed) <= DriftMax * DriftMax) =>
          IF SpeedSquared > SpeedMax * SpeedMax
          THEN emergency_stop' /\ emergency_reason' = "SPEED TOO HIGH" /\ svPc' = "after_loop"
          ELSE emergency_reason' # "SPEED TOO HIGH"
      ]_vars

\* a poll has just recorded a speed trip on a 4.0 m/s snapshot with drift within the limit
C12_Witness ==
    /\ svPc = "after_loop" /\ emergency_stop /\ emergency_reason = "SPEED TOO HIGH"
    /\ vel_ned = <<0, -40, 0>>
    /\ PlanarDriftSquared(PollElapsed) <= DriftMax * DriftMax

\* the run ended abnormally: the Supervisor tripped, or main ended by an exception
EndedAbnormally == emergency_stop \/ mainResult = "raised"

\* C13: when a mission run in which offboard was started is over, emergency_reason is
\* non-empty if and only if the run ended abnormally (a Supervisor trip, an Executor
\* command failure or any other exception that ended main); a run that ended normally has
\* emergency_reason empty and emergency_stop false.
C13_ReasonIffAbnormalEnd ==
    (MissionOver /\ OffboardWasStarted) =>
        /\ (emergency_reason # "") <=> EndedAbnormally
        /\ ~EndedAbnormally => ~emergency_stop

\* the step in which the Executor's awaited set_position_ned ends by raising
ExecutorSendRaises == mainPc = "fly_send" /\ mainPc' \notin {"fly_send", "fly_sleep"}

\* C15: when a setpoint transmission raises inside the Executor loop, main goes on to its
\* wind-down (running set to false, recorder awaited, tasks cancelled, terminal sequence)
\* instead of ending there.
C15_ExecutorFailureRunsWindDown ==
    [][ ExecutorSendRaises => mainPc' \in {"shutdown", "finally"} ]_vars

\* the step in which an awaited action.land() ends by raising, in main / in the Supervisor
MainLandRaises == mainPc = "main_land" /\ mainPc' \notin {"main_land", "main_land_sleep"}
SvLandRaises == svPc = "land" /\ svPc' \notin {"land", "land_sleep", "cancelled"}

\* C16: when the land command of the terminal sequence fails, the failure does not end the
\* caller with an exception and a further land attempt is issued (up to 3 in total), for
\* main and for the Supervisor's trip handler alike.
C16_LandRetriedNotReRaised ==
    [][ /\ MainLandRaises => (mainPc' # "done" /\ land_calls'["main"] = land_calls["main"] + 1)
        /\ SvLandRaises => (svPc' # "failed" /\ land_calls'["sv"] = land_calls["sv"] + 1)
      ]_vars

\* C18: when main has issued the terminal sequence, running is false, the Recorder has
\* ended, and the ingestion watchers and the Supervisor task have all ended.
C18_TasksEndedBeforeTerminalSequence ==
    offboard_stop_calls["main"] >= 1 =>
        (~running /\ AliveTasks(Watchers \cup {"sv", "rec"}) = {})

\* a task has an actuator command issued and not yet completed
MainCommandInFlight == mainPc \in {"align_send", "settle_send", "fly_send", "main_stop", "main_land"}
SvCommandInFlight == svPc \in {"stop", "land"}

\* C19: main (alignment, Executor, terminal sequence) and the Supervisor's trip handler
\* never have an actuator command in flight at the same time.
C19_OneCommandInFlight == ~(MainCommandInFlight /\ SvCommandInFlight)

\* main is inside the alignment coroutine (goto_xy_linear / goto_xyz_linear)
InAlignment ==
    mainPc \in {"align_wait", "align_wait_sleep", "align_loop", "align_send", "align_sleep",
                "settle_check", "settle_loop", "settle_send", "settle_sleep"}

MainSteps == mainPc' # mainPc
SvSteps == svPc' # svPc
RecSteps == recPc' # recPc \/ csv_rows' # csv_rows

\* C21: every telemetry field has one writer: a step that changes pos_ned or vel_ned is a
\* step of watch_posvel alone, one that changes attitude_deg of watch_attitude alone, one
\* that changes flight_mode of watch_flight_mode alone; no step of main (alignment,
\* Executor, shutdown), of the Supervisor or of the Recorder changes a telemetry field.
C21_SingleWriterPerField ==
    [][ /\ (pos_ned' # pos_ned \/ vel_ned' # vel_ned) =>
              (watchPc["posvel"] = "waiting" /\ attitude_deg' = attitude_deg /\ flight_mode' = flight_mode)
        /\ (attitude_deg' # attitude_deg) =>
              (watchPc["attitude"] = "waiting" /\ pos_ned' = pos_ned /\ vel_ned' = vel_ned
                                               /\ flight_mode' = flight_mode)
        /\ (flight_mode' # flight_mode) =>
              (watchPc["flight_mode"] = "waiting" /\ pos_ned' = pos_ned /\ vel_ned' = vel_ned
                                                  /\ attitude_deg' = attitude_deg)
        /\ (MainSteps \/ SvSteps \/ RecSteps) => UNCHANGED telemetryVars
      ]_vars

\* every field has been written by its watcher while the Executor, the Supervisor and the
\* Recorder were all running
C21_Witness ==
    /\ pos_ned # None /\ vel_ned # None /\ attitude_deg # None /\ flight_mode # "None"
    /\ mainPc = "fly_sleep" /\ svPc = "sleep" /\ recPc = "sleep" /\ csv_rows >= 1

\* C22: once the Recorder has sampled (it is asleep between two sampling ticks), it has
\* appended a record for the tick it took, whatever telemetry was set at that tick.
C22_RecordEveryTick == recPc = "sleep" => csv_rows >= 1

\* C30: a Supervisor wake-up that finds running false (main has ended the mission while
\* the Supervisor slept) trips nothing: it sets neither emergency_stop nor emergency_reason
\* and goes on to no terminal sequence.
C30_NoTripAfterMissionEnded ==
    [][ (IsPollStep /\ ~running) =>
          /\ emergency_stop' = emergency_stop
          /\ emergency_reason' = emergency_reason
          /\ svPc' # "after_loop" \/ ~emergency_stop'
      ]_vars

\* main is suspended in `await task_logger`
MainAwaitsLogger == mainPc \in {"await_logger", "fin_await_logger"}

\* C23: once running is false the Recorder appends no further record (hence at most one),
\* and whenever main awaits the Recorder task (under fair scheduling) the Recorder ends and
\* the await returns; while main awaits it, main has cancelled no task.
C23_LoggerAwaitReturns ==
    /\ [][ ~running => csv_rows' = csv_rows ]_vars
    /\ [](MainAwaitsLogger => cancel_requested = {})
    /\ MainAwaitsLogger ~> (~MainAwaitsLogger /\ recPc = "finished" /\ mainPc # "done")

\* the Recorder has left its loop and ended while main awaits it, no task cancelled yet
C23_Witness == mainPc = "await_logger" /\ recPc = "finished" /\ ~running /\ cancel_requested = {}

\* C24: no trajectory object with omega = 0 exists: construction with omega = 0 is
\* rejected, so duration() or a position is never requested on such an object.
C24_ZeroOmegaRejected == trajectory # None => trajectory.w # 0

\* the derivatives of Figure8Trajectory.position_xy at time t
Figure8DxDt(self, t) == self.R * self.w * CosQuarterTurns(self.w * t)
Figure8DyDt(self, t) == self.R * self.w * CosQuarterTurns(2 * self.w * t)
YawCalled == last_call # None /\ last_call.op = "yaw_deg"

\* C25: a yaw_deg(t) call on a Figure8Trajectory returned 0 if both dx/dt and dy/dt have
\* a magnitude below 1e-6 at t, and otherwise atan2(dy/dt, dx/dt) in degrees.
C25_YawDegSmallVelocityIsZero ==
    YawCalled =>
        LET dx == Figure8DxDt(trajectory, last_call.t)
            dy == Figure8DyDt(trajectory, last_call.t)
        IN IF Abs(dx) < YawEps /\ Abs(dy) < YawEps
           THEN last_call.value = 0
           ELSE last_call.value = Atan2Deg(dy, dx)

\* yaw_deg returned 0 for a velocity that is not zero but below the threshold
C25_Witness ==
    /\ YawCalled /\ last_call.value = 0
    /\ Figure8DxDt(trajectory, last_call.t) > 0 /\ Figure8DyDt(trajectory, last_call.t) > 0

CirclePositionCalled ==
    last_call # None /\ trajectory.kind = "circle" /\ last_call.op = "position_xy"

\* C26: a position returned by CircleTrajectory.position_xy(t) lies at distance R from
\* the center, and it is (cx + R, cy) at t = 0 and at t = duration.
C26_CircleAtDistanceR ==
    CirclePositionCalled =>
        LET p == last_call.value
            dx == p[1] - trajectory.cx
            dy == p[2] - trajectory.cy
            atEnd == IF trajectory.w = 0 THEN FALSE
                     ELSE last_call.t = TrajectoryDuration(trajectory)
        IN /\ dx * dx + dy * dy = trajectory.R * trajectory.R
           /\ (last_call.t = 0 \/ atEnd) => p = <<trajectory.cx + trajectory.R, trajectory.cy>>

\* the position at t = duration was requested on a circle of positive radius off the origin
C26_Witness ==
    /\ CirclePositionCalled /\ trajectory.w # 0 /\ trajectory.R > 0 /\ trajectory.cx # 0
    /\ last_call.t > 0 /\ last_call.t = 4 \div trajectory.w
    /\ last_call.value = <<trajectory.cx + trajectory.R, trajectory.cy>>

\* C27: no call of position_xy, position_xyz, yaw_deg or duration changes a field of the
\* trajectory object, so the value a call returned is the value of that call on the
\* object as it is now, whatever calls were made before.
C27_TrajectoryOperationsPure ==
    /\ [][ (trajectory # None) => (trajectory' = trajectory) ]_vars
    /\ [](last_call # None =>
            last_call.value = CallValue(trajectory, last_call.op, last_call.t))

\* a position was requested at the last time on a spiral that turns
C27_Witness ==
    /\ last_call # None /\ last_call.op = "position_xyz"
    /\ last_call.t = MaxCallTime /\ trajectory.w = 1 /\ trajectory.R > 0

\* C28: every setpoint sent by position_control_loop has its altitude target within
\* [ALT_MIN_M, ALT_MAX_M], whatever the keys and the initial altitude; no step of the
\* loop sets emergency_stop, and running changes only when the loop ends on the quit key
\* (or, once the loop is over, in main's wind-down).
C28_AltitudeTargetClamped ==
    /\ [](down_sent # None => (-down_sent[1] >= ALT_MIN_M /\ -down_sent[1] <= ALT_MAX_M))
    /\ [][ /\ emergency_stop' = emergency_stop
           /\ (running' # running) =>
                 (\/ kbPc = "loop" /\ kbPc' = "ended" /\ NextKey = "q"
                  \/ KbControlLoopOver) ]_vars

\* control went live above ALT_MAX_M: the target was clamped to the limit and sent, and the
\* mission goes on
C28_Witness ==
    /\ -pos_ned[3] > ALT_MAX_M /\ down_sent = <<-ALT_MAX_M>> /\ kbPc = "sleep"
    /\ running /\ ~emergency_stop

\* the last interpolation setpoint of an alignment that was not aborted is in flight
LastAlignSetpointSent == mainPc = "align_send" /\ align.i + 1 = AlignSteps

\* C29 (last part): if the alignment is not aborted, its last interpolation setpoint
\* equals the target, the trajectory's point at t = 0, exactly.
C29_LastAlignSetpointIsTarget ==
    LastAlignSetpointSent =>
        <<setpoint[1], setpoint[2], setpoint[3]>> = AlignTarget(mission)

\* C34: pos_ned is unset exactly when vel_ned is unset, and when set the two come from
\* the same position-velocity message.
C34_PosVelFromSameSample ==
    /\ (pos_ned = None) <=> (vel_ned = None)
    /\ pos_ned # None => \E s \in PosVelSamples : pos_ned = s.pos /\ vel_ned = s.vel

\* a moving sample is in the shared state while the Supervisor is about to poll it
C34_Witness == vel_ned = <<35, 0, 0>> /\ pos_ned = <<48, 0, -25>> /\ svPc = "poll"

\* the telemetry field(s) a watcher writes
WatcherField(w) ==
    CASE w = "posvel" -> <<pos_ned, vel_ned>>
      [] w = "attitude" -> <<attitude_deg>>
      [] OTHER -> <<flight_mode>>

\* C35: a sample written after running became false is the writing watcher's last: it
\* stops in that step; and a waiting watcher stops only so, or by being cancelled.
C35_WatcherStopsAfterOneSample ==
    [][ \A w \in Watchers :
          /\ (~running /\ WatcherField(w)' # WatcherField(w)) =>
                (watchPc[w] = "waiting" /\ watchPc'[w] = "finished")
          /\ (watchPc[w] = "waiting" /\ watchPc'[w] # "waiting") =>
                (\/ watchPc'[w] = "cancelled"
                 \/ watchPc'[w] = "finished" /\ ~running)
      ]_vars

\* with running false, one watcher stopped on its next sample, another got none and was
\* cancelled
C35_Witness ==
    /\ ~running /\ watchPc["posvel"] = "finished" /\ watchPc["attitude"] = "cancelled"
    /\ pos_ned # None /\ attitude_deg = None

C33_NoSetpointWithoutPosition ==
    /\ [][ (mainPc \in {"align_wait", "align_wait_sleep"}) => (setpoint' = setpoint) ]_vars
    /\ [][ (mainPc = "align_wait" /\ pos_ned = None /\ (~running \/ emergency_stop)) =>
              (mainPc' = "capture_t0" /\ setpoint' = setpoint) ]_vars
    /\ [][ (mainPc = "align_wait" /\ mainPc' = "align_loop") =>
              (/\ pos_ned # None
               /\ <<align'.x0, align'.y0, align'.z0>> = pos_ned) ]_vars
    /\ [](pos_ned = None => setpoint = None)

\* the alignment returned with no position and no setpoint, on running false
C33_Witness ==
    mainPc = "capture_t0" /\ pos_ned = None /\ setpoint = None /\ ~running /\ ~emergency_stop

\* main ends in this step, and not on an actuator call of its own that raised
MainEndsWithoutActuatorFailure == mainPc' = "done" /\ mainPc # "done" /\ ~MainCommandInFlight

\* C32 (safety part): with actuator calls that return, a mission run ends by main
\* returning after its terminal sequence (or on a failed offboard start): main does not
\* end by an exception at a step that is no actuator call.
C32_RunEndsByReturning ==
    [][ MainEndsWithoutActuatorFailure =>
          (/\ mainResult' \in {"returned", "offboard_failed"}
           /\ mainResult' = "returned" => exec_t0 # NoTime) ]_vars

\* position_control_loop takes a pass of its loop and reads the queue in this step
KeyRead == kbPc = "loop" /\ running /\ ~emergency_stop /\ kbPc' # kbPc

\* C36: position_control_loop sends no setpoint while it waits for the first key; going
\* live leaves the queue as it is, non-empty, and the pass that follows takes the key at
\* its head; vx_cmd, vy_cmd and the yaw rate keep their value on a pass with no key, with
\* W, S, Q or an unbound key, the arrows set vx_cmd and vy_cmd only, A and D set the yaw
\* rate only, SPACE zeroes all three, and nothing else changes them.
C36_FirstKeyKeptCommandsHeld ==
    /\ [](kbPc = "wait_first_key" => down_sent = None)
    /\ [][ (kbPc = "wait_first_key" /\ kbPc' = "loop") =>
              (command_queue # <<>> /\ command_queue' = command_queue) ]_vars
    /\ [][ (KeyRead /\ command_queue # <<>>) => command_queue' = Tail(command_queue) ]_vars
    /\ [][ (KeyRead /\ NextKey \in {"QueueEmpty", "w", "s", "q", "x"}) => kb_cmd' = kb_cmd ]_vars
    /\ [][ (KeyRead /\ NextKey = " ") => kb_cmd' = <<0, 0, 0>> ]_vars
    /\ [][ (KeyRead /\ NextKey \in ArrowKeys) =>
              (kb_cmd'[3] = kb_cmd[3] /\ <<kb_cmd'[1], kb_cmd'[2]>> # <<0, 0>>) ]_vars
    /\ [][ (KeyRead /\ NextKey \in {"a", "d"}) =>
              (kb_cmd'[1] = kb_cmd[1] /\ kb_cmd'[2] = kb_cmd[2] /\ kb_cmd'[3] # 0) ]_vars
    /\ [][ (kb_cmd' # kb_cmd) => (KeyRead /\ NextKey \in ArrowKeys \cup {"a", "d", " "}) ]_vars

\* an arrow and D were pressed, then W: the setpoint of the W pass is in flight with the
\* altitude target raised and both commands still held
C36_Witness ==
    /\ kbPc = "send" /\ kb_cmd = <<SPEED_M_S, 0, 1>> /\ command_queue = <<>>
    /\ -pos_ned[3] = ALT_MIN_M /\ alt_target = ALT_MIN_M + ALT_STEP_M

\* the step of position_control_loop that reads Q
QuitTick == KeyRead /\ NextKey = "q"

\* C31: the pass that reads Q sets running false and ends the loop without a setpoint;
\* once position_control_loop is over no setpoint is sent by it; main lands only after it
\* issued the offboard stop; a run that ended after Q has issued stop and land with
\* emergency_stop false; and after the loop ended main does end.
C31_QuitEndsLoopThenLands ==
    /\ [][ QuitTick => (~running' /\ kbPc' = "ended" /\ down_sent' = down_sent) ]_vars
    /\ [][ KbControlLoopOver => (kbPc' = kbPc /\ down_sent' = down_sent) ]_vars
    /\ [][ (land_calls' # land_calls) => offboard_stop_calls["main"] >= 1 ]_vars
    /\ []((mainPc = "done" /\ kbPc = "ended") =>
             (/\ offboard_stop_calls["main"] = 1 /\ land_calls["main"] >= 1
              /\ ~running /\ ~emergency_stop))
    /\ (kbPc = "ended") ~> (mainPc = "done")

\* Q was read after setpoints had been sent; stop and one land were issued, main returned
C31_Witness ==
    /\ mainPc = "done" /\ kbPc = "ended" /\ mainResult = "returned"
    /\ down_sent # None /\ offboard_stop_calls["main"] = 1 /\ land_calls["main"] = 1
    /\ ~emergency_stop

Spec == Init /\ [][Next]_vars

----------------------------------------------------------------------------
(* The flight phase of the aligned missions on its own: main stands at the call of the   *)
(* Executor (fly_circle, fly_trajectory, fly_spiral) after alignment and settle, t0 just *)
(* captured, with the Supervisor task taken as created.                                  *)

FlightInit ==
    /\ mission \in AlignedMissions
    /\ now = SettleTicks
    /\ cpu = "main"
    /\ \E s \in PosVelSamples : pos_ned = s.pos /\ vel_ned = s.vel
    /\ attitude_deg \in AttitudeSamples \cup {None}
    /\ flight_mode \in FlightModeSamples
    /\ running = TRUE /\ emergency_stop = FALSE /\ emergency_reason = ""
    /\ mission_phase = "INIT" /\ mission_t0_unix = NoTime
    /\ mainPc = "fly_check" /\ mainResult = "none"
    /\ exec_t0 = now
    /\ align = [x0 |-> 0, y0 |-> 0, z0 |-> 0, i |-> AlignSteps, t_end |-> SettleTicks]
    /\ svPc = "created" /\ sv_start = NoTime
    /\ recPc = "sleep" /\ csv_rows \in 0..MaxRows
    /\ watchPc = [w \in Watchers |-> "waiting"]
    /\ cancel_requested = {}
    /\ last_pass = {}
    /\ offboard_stop_calls = [i \in Issuers |-> 0]
    /\ land_calls = [i \in Issuers |-> 0]
    /\ setpoint = AlignHold(mission)
    /\ trajectory = None /\ last_call = None
    /\ kbPc = "none" /\ alt_target = 0 /\ down_sent = None
    /\ command_queue = <<>> /\ kb_cmd = <<0, 0, 0>> /\ land_attempt = 0 /\ disarm_calls = 0

FlightNext ==
    \/ Tick
    \/ MainFlyCheck
    \/ MainFlySendReturns
    \/ MainFlySleepWakes
    \/ MainShutdown
    \/ MainLoggerDone
    \/ MainLandOnly
    \/ MainFinally
    \/ MainFinLoggerDone
    \/ MainFinCancel
    \/ MainFinTasksEnded
    \/ MainFinAfterTasks
    \/ MainStopReturns
    \/ MainLandReturns
    \/ MainLandSleepWakes
    \/ LoopTeardown
    \/ SvStart
    \/ SvLoopCheck
    \/ SvWakes
    \/ SvPoll
    \/ SvAfterLoop
    \/ SvStopReturns
    \/ SvLandReturns
    \/ SvLandSleepWakes
    \/ RecStep
    \/ WatchPosVel
    \/ WatchAttitude
    \/ WatchFlightMode
    \/ CancelledErrorDelivered

\* C14: the Executor loop starts a setpoint command only from its loop head, and only
\* when at that moment running is true, emergency_stop is false and elapsed does not
\* exceed the trajectory duration; otherwise it leaves the loop without a setpoint.  So
\* once running is false or emergency_stop is true no new setpoint command is started (the
\* one in flight may complete).
C14_NoSetpointAfterAbort ==
    [][ /\ (mainPc = "fly_check" /\ mainPc' # "fly_check") =>
              IF running /\ ~emergency_stop /\ now - exec_t0 <= Duration
              THEN mainPc' = "fly_send" /\ setpoint' = TrajectorySetpoint(mission, now - exec_t0)
              ELSE mainPc' \in {"shutdown", "finally"} /\ setpoint' = setpoint
        /\ (mainPc # "fly_send" /\ mainPc' = "fly_send") =>
              (mainPc = "fly_check" /\ running /\ ~emergency_stop)
        /\ (~running \/ emergency_stop) => setpoint' = setpoint
      ]_vars

\* the Executor has left its loop on a Supervisor trip, within the trajectory duration,
\* after the setpoint that was in flight when the trip happened had completed
C14_Witness ==
    /\ mainPc \in {"shutdown", "finally"} /\ mainResult = "none"
    /\ emergency_stop /\ ~running
    /\ now - exec_t0 <= Duration
    /\ setpoint = TrajectorySetpoint(mission, now - exec_t0)

FlightSpec == FlightInit /\ [][FlightNext]_vars
\* the Supervisor's steps from one await to the next
SvRunsOn == SvLoopCheck \/ SvPoll \/ SvAfterLoop

\* the event loop runs a task that is ready: the Recorder is resumed when its sleep is
\* over, main when the task it awaits has ended, and the Supervisor, once running, goes
\* on to its next await
FairSpec == Spec /\ WF_vars(RecStep) /\ WF_vars(MainLoggerDone) /\ WF_vars(SvRunsOn)

\* the trajectory classes on their own: an object is constructed, then called
TrajectorySpec == TrajectoryInit /\ [][TrajectoryNext]_vars

\* the keyboard mission from the moment its control loop waits for the first key
KeyboardSpec == KeyboardInit /\ [][KeyboardNext]_vars

\* the event loop resumes main() once the awaited coroutine or call is over
KeyboardFairSpec == KeyboardSpec /\ WF_vars(KbMainNext)

\* goto_xy_linear / goto_xyz_linear from any start position
AlignSpec == AlignInit /\ [][AlignNext]_vars

=============================================================================
